---- MODULE Spec2Model ----
(***************************************************************************)
(* Model of mqdaemon.py: the intake thread (fill_queue), the bounded task  *)
(* queue, the worker threads (worker) and the execution routine            *)
(* (run_maxquant, get_files, parse_param_file).                            *)
(*                                                                         *)
(* Every statement of fill_queue and worker that touches the task or the   *)
(* queue is one atomic step of its thread, so that all interleavings of    *)
(* the intake thread and the workers are explored.  run_maxquant only      *)
(* reads the task's inputs and talks to the external tool; it is one step  *)
(* of the worker that runs it.                                             *)
(***************************************************************************)
EXTENDS Integers, Sequences, FiniteSets, TLC

\* ------------------------------------------------------------------ bounds
\* Longest input list explored for get_files.
MaxFiles == 3

\* ------------------------------------------------- configuration (scaled)
\* mqdaemon.py sets MAXQUEUE = 5 and NUM_WORKERS = 5; the model keeps the
\* names and checks the same code with smaller values.
MAXQUEUE == 2
NUM_WORKERS == 2

\* The listener yields one task more than the queue holds, then the model
\* stops the stream.
NumJobs == MAXQUEUE + 1
Jobs == 1..NumJobs
Workers == 1..NUM_WORKERS
NoTask == 0

\* ------------------------------------------------------------ input files
\* A Path is modelled by its stem and its suffix; str(file) is the record.
\* Variant: the suffix is compared as it is written.
Lower_asis(s) == s

\* str.lower() on the suffixes of the model.
Lower(s) ==
    CASE s = ".RAW" -> ".raw"
      [] s = ".JSON" -> ".json"
      [] OTHER -> s

File(st, su) == [stem |-> st, suffix |-> su]

Files == {File("a", ".RAW"), File("a", ".fasta"), File("a", ".txt"),
          File("cfg", ".yaml"), File("cfg", ".JSON"), File("a", ".json"),
          File("a", ".raw")}

\* Variant: d.setdefault(key, value) keeps the first value of a key.
DictSet_first(d, key, value) ==
    [k \in (DOMAIN d) \cup {key} |-> IF k \in DOMAIN d THEN d[k] ELSE value]

\* d[key] = value on a dict modelled as a function.
DictSet(d, key, value) ==
    [k \in (DOMAIN d) \cup {key} |-> IF k = key THEN value ELSE d[k]]

EmptyDict == [k \in {} |-> 0]

\* The loop of get_files: classify each input by its lower-cased suffix.
RECURSIVE Classify(_, _)
Classify(infiles, acc) ==
    IF infiles = <<>> THEN acc
    ELSE LET file == Head(infiles)
             low == Lower(file.suffix)
             next ==
               IF low = ".raw"
               THEN [acc EXCEPT !.raw_files = DictSet(@, file.stem, file)]
               ELSE IF low = ".fasta"
               THEN [acc EXCEPT !.fasta_files = DictSet(@, file.stem, file)]
               ELSE IF low \in {".yaml", ".json"}
               THEN [acc EXCEPT !.param_files = DictSet(@, file.stem, file)]
               ELSE [acc EXCEPT !.warned = @ \cup {file}]
         IN Classify(Tail(infiles), next)

ClassifyAll(infiles) ==
    Classify(infiles, [raw_files |-> EmptyDict, fasta_files |-> EmptyDict,
                       param_files |-> EmptyDict, warned |-> {}])

NoFile == File("", "")

\* get_files: raises ValueError (exc is its message) unless exactly one
\* entry is in param_files.
get_files(infiles) ==
    LET c == ClassifyAll(infiles)
        n == Cardinality(DOMAIN c.param_files)
    IN IF n > 1
       THEN [exc |-> "Too many parameter files", param_file |-> NoFile,
             raw_files |-> EmptyDict, fasta_files |-> EmptyDict]
       ELSE IF n = 0
       THEN [exc |-> "No parameter file", param_file |-> NoFile,
             raw_files |-> EmptyDict, fasta_files |-> EmptyDict]
       ELSE [exc |-> "none",
             param_file |-> c.param_files[CHOOSE k \in DOMAIN c.param_files : TRUE],
             raw_files |-> c.raw_files, fasta_files |-> c.fasta_files]

\* Outcomes of reading and parsing the parameter file, and of the tool.
ParseOutcomes == {"ok", "Invalid parameter file"}
ToolOutcomes == {"ok", "disk full"}

\* parse_param_file: po is what reading and parsing the file does.
parse_param_file(yamlOk, param_file, po) ==
    IF Lower(param_file.suffix) = ".yaml"
    THEN IF ~yamlOk THEN "No YAML support" ELSE po
    ELSE IF Lower(param_file.suffix) = ".json"
    THEN po
    ELSE "AssertionError"

\* run_maxquant: get_files, then parse_param_file, then mqparams.mqrun.
\* parsed / invoked record whether the parse and the tool were attempted,
\* param_file, raw_files and fasta_files what get_files returned.
run_maxquant(yamlOk, infiles, po, mo) ==
    LET g == get_files(infiles)
    IN IF g.exc # "none"
       THEN [exc |-> g.exc, parsed |-> FALSE, invoked |-> FALSE,
             param_file |-> NoFile, raw_files |-> EmptyDict,
             fasta_files |-> EmptyDict]
       ELSE LET p == parse_param_file(yamlOk, g.param_file, po)
            IN [exc |-> IF p # "ok" THEN p ELSE mo,
                parsed |-> TRUE, invoked |-> (p = "ok"),
                param_file |-> g.param_file, raw_files |-> g.raw_files,
                fasta_files |-> g.fasta_files]


\* Input lists the listener hands to the daemon's tasks in the daemon runs.
InfileChoices ==
    { <<File("a", ".RAW"), File("a", ".fasta"), File("cfg", ".yaml")>>,
      <<File("cfg", ".yaml"), File("a", ".json")>> }

\* ------------------------------------------------------------------ state
VARIABLES
    fpc,        \* position of the intake thread in fill_queue
    cur,        \* the task fill_queue is handling (index in the stream)
    queue,      \* task_queue: the tasks waiting, oldest first
    wpc,        \* position of each worker thread in worker
    wtask,      \* the task each worker holds
    wloc,       \* worker locals: "none", "ok" (outfiles) or str(e)
    status,     \* task status as last reported on the handle
    beat,       \* TRUE while the task's heartbeat timer is running
    msg,        \* message of the task's error report
    outfiles,   \* TRUE once task.outfiles was assigned
    infiles,    \* task.infiles
    yaml,       \* TRUE when the yaml module was importable
    adm,        \* history: "none", "admitted" or "rejected" by put_nowait
    fullAtPut,  \* history: the queue held MAXQUEUE tasks at the put
    deq,        \* history: how often the task left the queue (capped at 2)
    term,       \* history: number of terminal reports (capped at 2)
    ran,        \* history: result of the task's own run_maxquant call
    esc         \* history: the step of the task whose exception escaped

vars == <<fpc, cur, queue, wpc, wtask, wloc, status, beat, msg, outfiles,
          infiles, yaml, adm, fullAtPut, deq, term, ran, esc>>

jobVars == <<status, beat, msg, outfiles>>
histVars == <<adm, fullAtPut, deq, term, ran, esc>>
NotRun == [exc |-> "none", parsed |-> FALSE, invoked |-> FALSE,
           param_file |-> NoFile, raw_files |-> EmptyDict,
           fasta_files |-> EmptyDict]

Terminal == {"SUCCESS", "ERROR"}
Inc2(n) == IF n < 2 THEN n + 1 ELSE 2

\* --------------------------------------------------- the task handle
\* Operations of the task handle (fscall), by their contract in the spec.
task_status(t, s) == status' = [status EXCEPT ![t] = s]
task_start_beat(t) == beat' = [beat EXCEPT ![t] = TRUE]
task_stop_beat(t) == beat' = [beat EXCEPT ![t] = FALSE]
task_error(t, m) ==
    /\ status' = [status EXCEPT ![t] = "ERROR"]
    /\ msg' = [msg EXCEPT ![t] = m]
    /\ term' = [term EXCEPT ![t] = Inc2(@)]
task_success(t) ==
    /\ status' = [status EXCEPT ![t] = "SUCCESS"]
    /\ term' = [term EXCEPT ![t] = Inc2(@)]
\* with task.beat(interval): entering starts the heartbeat, leaving stops it.
task_beat_enter(t) == beat' = [beat EXCEPT ![t] = TRUE]
task_beat_exit(t) == beat' = [beat EXCEPT ![t] = FALSE]

\* --------------------------------------------------- the bounded queue
\* Variant: a queue built without maxsize never raises Full.
put_nowait_unbounded(q, t) == [full |-> FALSE, queue |-> Append(q, t)]

\* Variant: Full is raised, but only after the task was appended.
put_nowait_keeps(q, t) ==
    [full |-> Len(q) >= MAXQUEUE, queue |-> Append(q, t)]

\* queue.Queue(maxsize=MAXQUEUE).put_nowait: Full when maxsize tasks wait.
put_nowait(q, t) ==
    IF Len(q) >= MAXQUEUE
    THEN [full |-> TRUE, queue |-> q]
    ELSE [full |-> FALSE, queue |-> Append(q, t)]

\* ------------------------------------------------------------------ Init
\* The state main() sets up; y tells whether "import yaml" succeeded.
InitWith(y) ==
    /\ fpc = "f_next"
    /\ cur = NoTask
    /\ queue = <<>>
    /\ wpc = [w \in Workers |-> "w_get"]
    /\ wtask = [w \in Workers |-> NoTask]
    /\ wloc = [w \in Workers |-> "none"]
    /\ status = [j \in Jobs |-> "NEW"]
    /\ beat = [j \in Jobs |-> FALSE]
    /\ msg = [j \in Jobs |-> "none"]
    /\ outfiles = [j \in Jobs |-> FALSE]
    /\ infiles = [j \in Jobs |-> <<>>]
    /\ yaml = y
    /\ adm = [j \in Jobs |-> "none"]
    /\ fullAtPut = [j \in Jobs |-> FALSE]
    /\ deq = [j \in Jobs |-> 0]
    /\ term = [j \in Jobs |-> 0]
    /\ ran = [j \in Jobs |-> NotRun]
    /\ esc = [j \in Jobs |-> "none"]

\* The daemon runs with the yaml module installed.
Init == InitWith(TRUE)

\* ------------------------------------------------------------ fill_queue
\* for task in listener: the listener yields the next task.
FNext ==
    /\ fpc = "f_next"
    /\ cur < NumJobs
    /\ cur' = cur + 1
    /\ \E fs \in InfileChoices : infiles' = [infiles EXCEPT ![cur + 1] = fs]
    /\ fpc' = "f_status"
    /\ UNCHANGED <<queue, wpc, wtask, wloc, jobVars, yaml, histVars>>

\* task.status("WAITING")
FStatus ==
    /\ fpc = "f_status"
    /\ task_status(cur, "WAITING")
    /\ fpc' = "f_start"
    /\ UNCHANGED <<cur, queue, wpc, wtask, wloc, beat, msg, outfiles,
                   infiles, yaml, histVars>>

\* Variant: the intake thread does not start the heartbeat.
FStart_skip ==
    /\ fpc = "f_start"
    /\ fpc' = "f_put"
    /\ UNCHANGED <<cur, queue, wpc, wtask, wloc, jobVars, infiles, yaml,
                   histVars>>

\* task._start_beat(BEAT_INTERVAL)
FStart ==
    /\ fpc = "f_start"
    /\ task_start_beat(cur)
    /\ fpc' = "f_put"
    /\ UNCHANGED <<cur, queue, wpc, wtask, wloc, status, msg, outfiles,
                   infiles, yaml, histVars>>

\* Variant: the handler is a finally clause and also runs after a
\* successful put.
FPut_finally ==
    /\ fpc = "f_put"
    /\ LET r == put_nowait(queue, cur)
       IN /\ queue' = r.queue
          /\ fpc' = "f_stop"
          /\ adm' = [adm EXCEPT ![cur] =
                        IF r.full THEN "rejected" ELSE "admitted"]
    /\ fullAtPut' = [fullAtPut EXCEPT ![cur] = (Len(queue) = MAXQUEUE)]
    /\ UNCHANGED <<cur, wpc, wtask, wloc, jobVars, infiles, yaml,
                   deq, term, ran, esc>>

\* Variant: task_queue.put(task) waits until the queue has room.
FPut_blocking ==
    /\ fpc = "f_put"
    /\ Len(queue) < MAXQUEUE
    /\ queue' = Append(queue, cur)
    /\ fpc' = "f_next"
    /\ adm' = [adm EXCEPT ![cur] = "admitted"]
    /\ fullAtPut' = [fullAtPut EXCEPT ![cur] = FALSE]
    /\ UNCHANGED <<cur, wpc, wtask, wloc, jobVars, infiles, yaml,
                   deq, term, ran, esc>>

\* task_queue.put_nowait(task); queue.Full enters the handler.
FPut ==
    /\ fpc = "f_put"
    /\ LET r == put_nowait(queue, cur)
       IN /\ queue' = r.queue
          /\ fpc' = IF r.full THEN "f_stop" ELSE "f_next"
          /\ adm' = [adm EXCEPT ![cur] =
                        IF r.full THEN "rejected" ELSE "admitted"]
    /\ fullAtPut' = [fullAtPut EXCEPT ![cur] = (Len(queue) = MAXQUEUE)]
    /\ UNCHANGED <<cur, wpc, wtask, wloc, jobVars, infiles, yaml,
                   deq, term, ran, esc>>

\* Variant: the handler does not stop the heartbeat.
FStop_skip ==
    /\ fpc = "f_stop"
    /\ fpc' = "f_error"
    /\ UNCHANGED <<cur, queue, wpc, wtask, wloc, jobVars, infiles, yaml,
                   histVars>>

\* except queue.Full: task._stop_beat()
FStop ==
    /\ fpc = "f_stop"
    /\ task_stop_beat(cur)
    /\ fpc' = "f_error"
    /\ UNCHANGED <<cur, queue, wpc, wtask, wloc, status, msg, outfiles,
                   infiles, yaml, histVars>>

\* except queue.Full: task.error("Compute node overloaded")
FError ==
    /\ fpc = "f_error"
    /\ task_error(cur, "Compute node overloaded")
    /\ fpc' = "f_next"
    /\ UNCHANGED <<cur, queue, wpc, wtask, wloc, beat, outfiles,
                   infiles, yaml, adm, fullAtPut, deq, ran, esc>>

fill_queue == FNext \/ FStatus \/ FStart \/ FPut \/ FStop \/ FError

\* ---------------------------------------------------------------- worker
\* Variant: the worker reads the oldest task and leaves it in the queue.
WGet_peek(w) ==
    /\ wpc[w] = "w_get"
    /\ queue # <<>>
    /\ wtask' = [wtask EXCEPT ![w] = Head(queue)]
    /\ deq' = [deq EXCEPT ![Head(queue)] = Inc2(@)]
    /\ wpc' = [wpc EXCEPT ![w] = "w_status"]
    /\ UNCHANGED <<fpc, cur, queue, wloc, jobVars, infiles, yaml, adm,
                   fullAtPut, term, ran, esc>>

\* Variant: a LifoQueue hands out the newest task first.
WGet_lifo(w) ==
    /\ wpc[w] = "w_get"
    /\ queue # <<>>
    /\ wtask' = [wtask EXCEPT ![w] = queue[Len(queue)]]
    /\ queue' = SubSeq(queue, 1, Len(queue) - 1)
    /\ deq' = [deq EXCEPT ![queue[Len(queue)]] = Inc2(@)]
    /\ wpc' = [wpc EXCEPT ![w] = "w_status"]
    /\ UNCHANGED <<fpc, cur, wloc, jobVars, infiles, yaml, adm, fullAtPut,
                   term, ran, esc>>

\* task = task_queue.get(): blocks while the queue is empty.
WGet(w) ==
    /\ wpc[w] = "w_get"
    /\ queue # <<>>
    /\ wtask' = [wtask EXCEPT ![w] = Head(queue)]
    /\ queue' = Tail(queue)
    /\ deq' = [deq EXCEPT ![Head(queue)] = Inc2(@)]
    /\ wpc' = [wpc EXCEPT ![w] = "w_status"]
    /\ UNCHANGED <<fpc, cur, wloc, jobVars, infiles, yaml, adm, fullAtPut,
                   term, ran, esc>>

\* task.status('WORKING')
WStatus(w) ==
    /\ wpc[w] = "w_status"
    /\ task_status(wtask[w], "WORKING")
    /\ wpc' = [wpc EXCEPT ![w] = "w_stop"]
    /\ UNCHANGED <<fpc, cur, queue, wtask, wloc, beat, msg, outfiles,
                   infiles, yaml, histVars>>

\* Variant: the worker does not stop the heartbeat of the waiting task.
WStop_skip(w) ==
    /\ wpc[w] = "w_stop"
    /\ wpc' = [wpc EXCEPT ![w] = "w_enter"]
    /\ UNCHANGED <<fpc, cur, queue, wtask, wloc, jobVars, infiles, yaml,
                   histVars>>

\* task._stop_beat()
WStop(w) ==
    /\ wpc[w] = "w_stop"
    /\ task_stop_beat(wtask[w])
    /\ wpc' = [wpc EXCEPT ![w] = "w_enter"]
    /\ UNCHANGED <<fpc, cur, queue, wtask, wloc, status, msg, outfiles,
                   infiles, yaml, histVars>>

\* with task.beat(BEAT_INTERVAL): entering the block
WEnter(w) ==
    /\ wpc[w] = "w_enter"
    /\ task_beat_enter(wtask[w])
    /\ wpc' = [wpc EXCEPT ![w] = "w_run"]
    /\ UNCHANGED <<fpc, cur, queue, wtask, wloc, status, msg, outfiles,
                   infiles, yaml, histVars>>

\* Variant: without the inner handler a failure of run_maxquant leaves
\* the with block and reaches the handler of the loop.
WRun_escape(w) ==
    /\ wpc[w] = "w_run"
    /\ \E po \in ParseOutcomes, mo \in ToolOutcomes :
         LET r == run_maxquant(yaml, infiles[wtask[w]], po, mo)
         IN /\ wloc' = [wloc EXCEPT ![w] = r.exc]
            /\ ran' = [ran EXCEPT ![wtask[w]] = r]
            /\ wpc' = [wpc EXCEPT ![w] =
                          IF r.exc = "ok" THEN "w_outfiles" ELSE "w_exit"]
    /\ UNCHANGED <<fpc, cur, queue, wtask, jobVars, infiles, yaml, adm,
                   fullAtPut, deq, term, esc>>

\* outfiles = run_maxquant(...): an exception enters the inner handler,
\* a normal return enters the else branch.
WRun(w) ==
    /\ wpc[w] = "w_run"
    /\ \E po \in ParseOutcomes, mo \in ToolOutcomes :
         LET r == run_maxquant(yaml, infiles[wtask[w]], po, mo)
         IN /\ wloc' = [wloc EXCEPT ![w] = r.exc]
            /\ ran' = [ran EXCEPT ![wtask[w]] = r]
            /\ wpc' = [wpc EXCEPT ![w] =
                          IF r.exc = "ok" THEN "w_outfiles" ELSE "w_error"]
    /\ UNCHANGED <<fpc, cur, queue, wtask, jobVars, infiles, yaml, adm,
                   fullAtPut, deq, term, esc>>

\* Variant: the handler reports a fixed text instead of str(e).
WError_generic(w) ==
    /\ wpc[w] = "w_error"
    /\ task_error(wtask[w], "Unknown error")
    /\ wpc' = [wpc EXCEPT ![w] = "w_exit"]
    /\ UNCHANGED <<fpc, cur, queue, wtask, wloc, beat, outfiles, infiles,
                   yaml, adm, fullAtPut, deq, ran, esc>>

\* except Exception as e: task.error(str(e))
WError(w) ==
    /\ wpc[w] = "w_error"
    /\ task_error(wtask[w], wloc[w])
    /\ wpc' = [wpc EXCEPT ![w] = "w_exit"]
    /\ UNCHANGED <<fpc, cur, queue, wtask, wloc, beat, outfiles, infiles,
                   yaml, adm, fullAtPut, deq, ran, esc>>

\* Variant: the else branch reports success without task.outfiles.
WOutfiles_skip(w) ==
    /\ wpc[w] = "w_outfiles"
    /\ wpc' = [wpc EXCEPT ![w] = "w_success"]
    /\ UNCHANGED <<fpc, cur, queue, wtask, wloc, jobVars, infiles, yaml,
                   histVars>>

\* else: task.outfiles = outfiles
WOutfiles(w) ==
    /\ wpc[w] = "w_outfiles"
    /\ outfiles' = [outfiles EXCEPT ![wtask[w]] = TRUE]
    /\ wpc' = [wpc EXCEPT ![w] = "w_success"]
    /\ UNCHANGED <<fpc, cur, queue, wtask, wloc, status, beat, msg, infiles,
                   yaml, histVars>>

\* else: task.success()
WSuccess(w) ==
    /\ wpc[w] = "w_success"
    /\ task_success(wtask[w])
    /\ wpc' = [wpc EXCEPT ![w] = "w_exit"]
    /\ UNCHANGED <<fpc, cur, queue, wtask, wloc, beat, msg, outfiles,
                   infiles, yaml, adm, fullAtPut, deq, ran, esc>>

\* leaving the with block stops the heartbeat; the loop starts over.
WExit(w) ==
    /\ wpc[w] = "w_exit"
    /\ task_beat_exit(wtask[w])
    /\ wpc' = [wpc EXCEPT ![w] = "w_get"]
    /\ wtask' = [wtask EXCEPT ![w] = NoTask]
    /\ wloc' = [wloc EXCEPT ![w] = "none"]
    /\ UNCHANGED <<fpc, cur, queue, status, msg, outfiles, infiles, yaml,
                   adm, fullAtPut, deq, term, ran, esc>>

worker(w) ==
    \/ WGet(w) \/ WStatus(w) \/ WStop(w) \/ WEnter(w) \/ WRun(w)
    \/ WError(w) \/ WOutfiles(w) \/ WSuccess(w) \/ WExit(w)

Next == fill_queue \/ \E w \in Workers : worker(w)

Spec == Init /\ [][Next]_vars

\* The threads are scheduled fairly and a call of run_maxquant returns.
LiveSpec ==
    /\ Init /\ [][Next]_vars
    /\ WF_vars(fill_queue)
    /\ \A w \in Workers : WF_vars(worker(w))

\* Only the intake thread is scheduled fairly: the workers may stall for
\* ever, in run_maxquant or anywhere else.
IntakeLiveSpec == Init /\ [][Next]_vars /\ WF_vars(fill_queue)

\* ------------------------------------- exceptions of the task handle
\* The tasks whose handling was left by an exception that reached the
\* handler of a loop.
Faulted == {j \in Jobs : esc[j] # "none"}

\* An operation of step op on task t raises.
escapes(t, op) == esc' = [esc EXCEPT ![t] = op]

\* task.status("WAITING") raises, with the status written or not; the
\* handler of the loop logs it and the loop takes the next task.
FStatusRaises ==
    /\ fpc = "f_status"
    /\ escapes(cur, "f_status")
    /\ \/ task_status(cur, "WAITING")
       \/ UNCHANGED status
    /\ fpc' = "f_next"
    /\ UNCHANGED <<cur, queue, wpc, wtask, wloc, beat, msg, outfiles,
                   infiles, yaml, adm, fullAtPut, deq, term, ran>>

\* task._start_beat(BEAT_INTERVAL) raises, with the timer started or not.
FStartRaises ==
    /\ fpc = "f_start"
    /\ escapes(cur, "f_start")
    /\ \/ task_start_beat(cur)
       \/ UNCHANGED beat
    /\ fpc' = "f_next"
    /\ UNCHANGED <<cur, queue, wpc, wtask, wloc, status, msg, outfiles,
                   infiles, yaml, adm, fullAtPut, deq, term, ran>>

\* except queue.Full: task._stop_beat() raises, task.error is skipped.
FStopRaises ==
    /\ fpc = "f_stop"
    /\ escapes(cur, "f_stop")
    /\ \/ task_stop_beat(cur)
       \/ UNCHANGED beat
    /\ fpc' = "f_next"
    /\ UNCHANGED <<cur, queue, wpc, wtask, wloc, status, msg, outfiles,
                   infiles, yaml, adm, fullAtPut, deq, term, ran>>

\* except queue.Full: task.error("Compute node overloaded") raises.
FErrorRaises ==
    /\ fpc = "f_error"
    /\ escapes(cur, "f_error")
    /\ \/ task_error(cur, "Compute node overloaded")
       \/ UNCHANGED <<status, msg, term>>
    /\ fpc' = "f_next"
    /\ UNCHANGED <<cur, queue, wpc, wtask, wloc, beat, outfiles,
                   infiles, yaml, adm, fullAtPut, deq, ran>>

\* Variant: without the handler of the loop the exception ends the thread.
WStatusRaises_dies(w) ==
    /\ wpc[w] = "w_status"
    /\ escapes(wtask[w], "w_status")
    /\ \/ task_status(wtask[w], "WORKING")
       \/ UNCHANGED status
    /\ wpc' = [wpc EXCEPT ![w] = "dead"]
    /\ wtask' = [wtask EXCEPT ![w] = NoTask]
    /\ wloc' = [wloc EXCEPT ![w] = "none"]
    /\ UNCHANGED <<fpc, cur, queue, beat, msg, outfiles,
                   infiles, yaml, adm, fullAtPut, deq, term, ran>>

\* task.status('WORKING') raises, with the status written or not; the
\* handler of the loop logs it and the worker waits for the next task.
WStatusRaises(w) ==
    /\ wpc[w] = "w_status"
    /\ escapes(wtask[w], "w_status")
    /\ \/ task_status(wtask[w], "WORKING")
       \/ UNCHANGED status
    /\ wpc' = [wpc EXCEPT ![w] = "w_get"]
    /\ wtask' = [wtask EXCEPT ![w] = NoTask]
    /\ wloc' = [wloc EXCEPT ![w] = "none"]
    /\ UNCHANGED <<fpc, cur, queue, beat, msg, outfiles,
                   infiles, yaml, adm, fullAtPut, deq, term, ran>>

\* task._stop_beat() raises, with the timer stopped or not.
WStopRaises(w) ==
    /\ wpc[w] = "w_stop"
    /\ escapes(wtask[w], "w_stop")
    /\ \/ task_stop_beat(wtask[w])
       \/ UNCHANGED beat
    /\ wpc' = [wpc EXCEPT ![w] = "w_get"]
    /\ wtask' = [wtask EXCEPT ![w] = NoTask]
    /\ wloc' = [wloc EXCEPT ![w] = "none"]
    /\ UNCHANGED <<fpc, cur, queue, status, msg, outfiles,
                   infiles, yaml, adm, fullAtPut, deq, term, ran>>

\* with task.beat(BEAT_INTERVAL): entering raises, with the timer started
\* or not; the block is not entered and nothing leaves it.
WEnterRaises(w) ==
    /\ wpc[w] = "w_enter"
    /\ escapes(wtask[w], "w_enter")
    /\ \/ task_beat_enter(wtask[w])
       \/ UNCHANGED beat
    /\ wpc' = [wpc EXCEPT ![w] = "w_get"]
    /\ wtask' = [wtask EXCEPT ![w] = NoTask]
    /\ wloc' = [wloc EXCEPT ![w] = "none"]
    /\ UNCHANGED <<fpc, cur, queue, status, msg, outfiles,
                   infiles, yaml, adm, fullAtPut, deq, term, ran>>

\* Variant: the exception of task.error leaves the block without the
\* heartbeat being stopped.
WErrorRaises_held(w) ==
    /\ wpc[w] = "w_error"
    /\ escapes(wtask[w], "w_error")
    /\ \/ task_error(wtask[w], wloc[w])
       \/ UNCHANGED <<status, msg, term>>
    /\ wpc' = [wpc EXCEPT ![w] = "w_get"]
    /\ wtask' = [wtask EXCEPT ![w] = NoTask]
    /\ wloc' = [wloc EXCEPT ![w] = "none"]
    /\ UNCHANGED <<fpc, cur, queue, beat, outfiles, infiles,
                   yaml, adm, fullAtPut, deq, ran>>

\* task.error(str(e)) raises, with the report written or not; the
\* exception leaves the with block, which stops the heartbeat.
WErrorRaises(w) ==
    /\ wpc[w] = "w_error"
    /\ escapes(wtask[w], "w_error")
    /\ \/ task_error(wtask[w], wloc[w])
       \/ UNCHANGED <<status, msg, term>>
    /\ task_beat_exit(wtask[w])
    /\ wpc' = [wpc EXCEPT ![w] = "w_get"]
    /\ wtask' = [wtask EXCEPT ![w] = NoTask]
    /\ wloc' = [wloc EXCEPT ![w] = "none"]
    /\ UNCHANGED <<fpc, cur, queue, outfiles, infiles,
                   yaml, adm, fullAtPut, deq, ran>>

\* task.success() raises, with the report written or not; the exception
\* leaves the with block, which stops the heartbeat.
WSuccessRaises(w) ==
    /\ wpc[w] = "w_success"
    /\ escapes(wtask[w], "w_success")
    /\ \/ task_success(wtask[w])
       \/ UNCHANGED <<status, term>>
    /\ task_beat_exit(wtask[w])
    /\ wpc' = [wpc EXCEPT ![w] = "w_get"]
    /\ wtask' = [wtask EXCEPT ![w] = NoTask]
    /\ wloc' = [wloc EXCEPT ![w] = "none"]
    /\ UNCHANGED <<fpc, cur, queue, msg, outfiles, infiles,
                   yaml, adm, fullAtPut, deq, ran>>

\* leaving the with block raises, with the timer stopped or not.
WExitRaises(w) ==
    /\ wpc[w] = "w_exit"
    /\ escapes(wtask[w], "w_exit")
    /\ \/ task_beat_exit(wtask[w])
       \/ UNCHANGED beat
    /\ wpc' = [wpc EXCEPT ![w] = "w_get"]
    /\ wtask' = [wtask EXCEPT ![w] = NoTask]
    /\ wloc' = [wloc EXCEPT ![w] = "none"]
    /\ UNCHANGED <<fpc, cur, queue, status, msg, outfiles,
                   infiles, yaml, adm, fullAtPut, deq, term, ran>>

fill_queue_raises ==
    FStatusRaises \/ FStartRaises \/ FStopRaises \/ FErrorRaises

worker_raises(w) ==
    \/ WStatusRaises(w) \/ WStopRaises(w) \/ WEnterRaises(w)
    \/ WErrorRaises(w) \/ WSuccessRaises(w) \/ WExitRaises(w)

FaultNext ==
    \/ fill_queue \/ fill_queue_raises
    \/ \E w \in Workers : worker(w) \/ worker_raises(w)

\* The daemon with a task handle whose operations may raise.
FaultSpec == Init /\ [][FaultNext]_vars

\* ------------------------------------------- runs over all input lists
\* Every list of at most MaxFiles different input files.
AllInfiles ==
    UNION { {fs \in [1..n -> Files] :
                \A i, k \in 1..n : i # k => fs[i] # fs[k]} : n \in 0..MaxFiles }

\* The listener yields one task whose inputs are any list of AllInfiles.
FNextFiles ==
    /\ fpc = "f_next"
    /\ cur = NoTask
    /\ cur' = cur + 1
    /\ \E fs \in AllInfiles : infiles' = [infiles EXCEPT ![cur + 1] = fs]
    /\ fpc' = "f_status"
    /\ UNCHANGED <<queue, wpc, wtask, wloc, jobVars, yaml, histVars>>

NextFiles ==
    FNextFiles \/ FStatus \/ FStart \/ FPut \/ \E w \in Workers : worker(w)

InitFiles == \E y \in BOOLEAN : InitWith(y)

SpecFiles == InitFiles /\ [][NextFiles]_vars

TypeOK ==
    /\ fpc \in {"f_next", "f_status", "f_start", "f_put", "f_stop", "f_error"}
    /\ cur \in 0..NumJobs
    /\ Len(queue) <= NumJobs
    /\ \A j \in Jobs : status[j] \in {"NEW", "WAITING", "WORKING"} \cup Terminal

\* ------------------------------------------------------------ properties
InQueue(j) == \E i \in 1..Len(queue) : queue[i] = j
Admitted(j) == adm[j] = "admitted"
Rejected(j) == adm[j] = "rejected"

\* C1: every admitted job is eventually taken from the queue exactly once
\* and reaches exactly one terminal status: it is never dequeued twice and
\* never reported twice, and once admitted it eventually has been dequeued
\* once, reported once and carries SUCCESS or ERROR.
C1_AdmittedServedOnce ==
    /\ [](\A j \in Jobs : deq[j] <= 1 /\ term[j] <= 1)
    /\ \A j \in Jobs :
         Admitted(j) ~> (/\ deq[j] = 1
                         /\ term[j] = 1
                         /\ status[j] \in Terminal)

\* Witness of C1: as many jobs as the queue holds were admitted, each was
\* dequeued once and has its terminal status.
C1_Witness ==
    \A j \in 1..MAXQUEUE :
        /\ Admitted(j) /\ ~fullAtPut[j]
        /\ deq[j] = 1 /\ term[j] = 1 /\ status[j] \in Terminal

\* C2: the queue never holds more than MAXQUEUE jobs, and a put attempted
\* while it holds MAXQUEUE jobs leaves the queue as it was.
C2_QueueBounded ==
    /\ [](Len(queue) <= MAXQUEUE)
    /\ [][(fpc = "f_put" /\ fpc' # "f_put" /\ Len(queue) = MAXQUEUE)
            => queue' = queue]_vars

\* Witness of C2: a put was attempted on a full queue and the queue still
\* holds MAXQUEUE jobs, none of them the rejected one.
C2_Witness ==
    /\ fpc = "f_stop"
    /\ fullAtPut[cur]
    /\ Len(queue) = MAXQUEUE
    /\ ~InQueue(cur)

\* C3: a job whose put found MAXQUEUE jobs waiting is rejected, and once
\* the intake thread has finished with it, it has status ERROR with the
\* message "Compute node overloaded" and its heartbeat is stopped.
C3_FullQueueRejects ==
    \A j \in Jobs :
        fullAtPut[j] =>
            /\ Rejected(j)
            /\ ~(cur = j /\ fpc \in {"f_stop", "f_error"}) =>
                  /\ status[j] = "ERROR"
                  /\ msg[j] = "Compute node overloaded"
                  /\ ~beat[j]

\* Witness of C3: the intake thread is back at the head of its loop after
\* rejecting a job on a full queue.
C3_Witness ==
    \E j \in Jobs :
        /\ fullAtPut[j] /\ fpc = "f_next" /\ cur = j
        /\ status[j] = "ERROR" /\ ~beat[j]

\* C4: when a worker has just reported SUCCESS or ERROR on its job, the
\* job's heartbeat is already stopped.
C4_StoppedBeforeReport ==
    \A w \in Workers :
        (wpc[w] = "w_exit" /\ status[wtask[w]] \in Terminal)
            => ~beat[wtask[w]]

\* The status changes the job lifecycle allows.
AllowedStep(j) ==
    \/ status[j] = "NEW" /\ status'[j] = "WAITING"
    \/ status[j] = "WAITING" /\ status'[j] = "WORKING"
    \/ status[j] = "WAITING" /\ status'[j] = "ERROR" /\ Rejected(j)
    \/ status[j] = "WORKING" /\ status'[j] \in Terminal

\* C5: a job's status only moves WAITING -> WORKING -> SUCCESS or ERROR,
\* or WAITING -> ERROR when its admission was rejected; a status SUCCESS or
\* ERROR is never changed again.
C5_StatusLifecycle ==
    [][\A j \in Jobs : status'[j] # status[j] => AllowedStep(j)]_vars

\* Witness of C5: one job ended SUCCESS, one ended ERROR in a worker and
\* one was rejected.
C5_Witness ==
    \E i, j, k \in Jobs :
        /\ status[i] = "SUCCESS"
        /\ status[j] = "ERROR" /\ Admitted(j)
        /\ status[k] = "ERROR" /\ Rejected(k)

\* Number of inputs whose suffix is .yaml or .json, whatever its case.
ParamInputs(fs) ==
    Cardinality({i \in 1..Len(fs) : Lower(fs[i].suffix) \in {".yaml", ".json"}})

\* C6: when the inputs hold no or more than one .yaml/.json file, the run
\* fails with the input error of get_files, and neither the parameter file
\* is parsed nor the tool invoked.
C6_ParamCountChecked ==
    \A j \in Jobs :
        (ran[j] # NotRun /\ ParamInputs(infiles[j]) # 1) =>
            /\ ran[j].exc \in {"Too many parameter files", "No parameter file"}
            /\ ~ran[j].parsed
            /\ ~ran[j].invoked

Held(j) == \E w \in Workers : wtask[w] = j

\* C7: a job rejected on a full queue is never in the queue, is never
\* dequeued or held by a worker, never has status WORKING and is never
\* given to run_maxquant.
C7_RejectedNeverWorked ==
    \A j \in Jobs :
        Rejected(j) =>
            /\ ~InQueue(j)
            /\ deq[j] = 0
            /\ ~Held(j)
            /\ status[j] \notin {"WORKING", "SUCCESS"}
            /\ ran[j] = NotRun

\* Witness of C7: a job was rejected, every other job is finished, the
\* queue is empty and all workers wait for the next job.
C7_Witness ==
    \E j \in Jobs :
        /\ Rejected(j) /\ status[j] = "ERROR"
        /\ queue = <<>>
        /\ \A w \in Workers : wpc[w] = "w_get"
        /\ \A k \in Jobs \ {j} : status[k] \in Terminal /\ deq[k] = 1

\* The worker is past its report on job j (or j was never held).
Reported(j) ==
    \A w \in Workers :
        wtask[w] = j => wpc[w] = "w_exit"

\* C8: when run_maxquant fails for a job with message m, the worker enters
\* its per-job handler with m, and after the report the job has status
\* ERROR with exactly m; the outcome of every job is that of its own run,
\* whatever the worker's previous job did.
C8_FailureIsolated ==
    /\ \A w \in Workers :
          wpc[w] \in {"w_error", "w_outfiles", "w_success", "w_exit"} =>
              /\ wloc[w] = ran[wtask[w]].exc
              /\ wpc[w] = "w_error" => wloc[w] # "ok"
              /\ wpc[w] \in {"w_outfiles", "w_success"} => wloc[w] = "ok"
    /\ \A j \in Jobs :
          (ran[j] # NotRun /\ Reported(j)) =>
              IF ran[j].exc = "ok"
              THEN status[j] = "SUCCESS" /\ msg[j] = "none"
              ELSE status[j] = "ERROR" /\ msg[j] = ran[j].exc

\* Witness of C8: one of two workers still holds the first job, so the
\* other one handled the second job, which failed with "disk full", and
\* has now reported SUCCESS on the third.
C8_Witness ==
    /\ NUM_WORKERS = 2
    /\ \E w1, w2 \in Workers :
          /\ w1 # w2
          /\ wtask[w2] = 1
          /\ deq[2] = 1 /\ status[2] = "ERROR" /\ msg[2] = "disk full"
          /\ wtask[w1] = 3 /\ wpc[w1] = "w_exit" /\ status[3] = "SUCCESS"

\* The threads that are inside their handling of job j.
IntakeHolds(j) ==
    cur = j /\ fpc \in {"f_status", "f_start", "f_put", "f_stop", "f_error"}
WorkerHolds(w, j) == wtask[w] = j /\ wpc[w] # "w_get"
Holders(j) ==
    {w \in Workers : WorkerHolds(w, j)}
        \cup (IF IntakeHolds(j) THEN {0} ELSE {})

\* C9: at most one thread is handling a job at any time: a job waiting in
\* the queue is handled by no thread, the intake thread does nothing on a
\* job it has enqueued, and a job is dequeued by at most one worker.
C9_SingleWriter ==
    \A j \in Jobs :
        /\ Cardinality(Holders(j)) <= 1
        /\ InQueue(j) => Holders(j) = {}
        /\ Admitted(j) => ~IntakeHolds(j)
        /\ deq[j] <= 1

\* Witness of C9: two workers and the intake thread each handle a
\* different job at the same time.
C9_Witness ==
    \E w1, w2 \in Workers :
        /\ w1 # w2
        /\ wpc[w1] = "w_run" /\ wpc[w2] = "w_status"
        /\ fpc = "f_start"
        /\ Cardinality({wtask[w1], wtask[w2], cur}) = 3

Started(j) == status[j] \in {"WORKING", "SUCCESS", "ERROR"}

\* C10 as stated: of two admitted jobs the one admitted first is set to
\* WORKING first.
C10_WorkingInOrder ==
    \A a, b \in Jobs :
        (a < b /\ Admitted(a) /\ Admitted(b) /\ Started(b)) => Started(a)

\* C10, amended: the queue holds the admitted jobs in the order the stream
\* emitted them, and of two admitted jobs the one admitted first leaves
\* the queue first.
C10_FifoDequeue ==
    /\ \A i, k \in 1..Len(queue) : i < k => queue[i] < queue[k]
    /\ \A a, b \in Jobs :
          (a < b /\ Admitted(a) /\ Admitted(b) /\ deq[b] > 0) => deq[a] > 0
    /\ \A j \in Jobs : InQueue(j) => deq[j] = 0 /\ Admitted(j)

\* Witness of C10: both jobs left the queue in order, and the later one is
\* WORKING while the earlier one is still WAITING.
C10_Witness ==
    \E a, b \in Jobs :
        /\ a < b
        /\ deq[a] = 1 /\ deq[b] = 1
        /\ status[a] = "WAITING" /\ status[b] = "WORKING"

\* C11: the intake thread never waits for room in the queue: every job the
\* listener yields is eventually admitted, or rejected and reported ERROR,
\* also when no worker ever takes a job from the queue again.
C11_IntakeNeverBlocks ==
    \A j \in Jobs :
        (cur = j /\ fpc = "f_status")
            ~> (\/ Admitted(j)
                \/ Rejected(j) /\ status[j] = "ERROR" /\ fpc = "f_next")

\* Witness of C11: no worker ever dequeued a job, the queue is full, and
\* the intake thread has rejected a job and is back at the head of its loop.
C11_Witness ==
    /\ \A j \in Jobs : deq[j] = 0
    /\ Len(queue) = MAXQUEUE
    /\ fpc = "f_next"
    /\ \E j \in Jobs : Rejected(j) /\ status[j] = "ERROR"

\* The inputs of a list, and the three classes of inputs by suffix.
Inputs(fs) == {fs[i] : i \in 1..Len(fs)}
IsRaw(f) == f.suffix \in {".raw", ".RAW"}
IsFasta(f) == f.suffix \in {".fasta"}
IsParam(f) == f.suffix \in {".yaml", ".json", ".JSON"}
IsUnknown(f) == ~IsRaw(f) /\ ~IsFasta(f) /\ ~IsParam(f)
Values(d) == {d[k] : k \in DOMAIN d}

\* The mapping d holds the inputs of one class, keyed by their stems.
KeyedByStem(d, class) ==
    /\ DOMAIN d = {f.stem : f \in class}
    /\ \A k \in DOMAIN d : d[k] \in class /\ d[k].stem = k

\* C12: get_files puts every .raw input in the raw mapping, every .fasta
\* input in the reference mapping and takes its parameter file among the
\* .yaml/.json inputs, whatever the case of the suffix, keyed by stem; an
\* input with another suffix is in none of them, and a list with exactly
\* one parameter input passes get_files whatever else it holds.
C12_ClassifiedBySuffix ==
    \A j \in Jobs :
        LET fs == Inputs(infiles[j])
            r == ran[j]
        IN r # NotRun =>
            /\ Cardinality({f \in fs : IsParam(f)}) = 1 => r.parsed
            /\ r.parsed =>
                 /\ KeyedByStem(r.raw_files, {f \in fs : IsRaw(f)})
                 /\ KeyedByStem(r.fasta_files, {f \in fs : IsFasta(f)})
                 /\ r.param_file \in {f \in fs : IsParam(f)}
                 /\ \A f \in fs :
                      IsUnknown(f) =>
                          /\ f \notin Values(r.raw_files)
                          /\ f \notin Values(r.fasta_files)
                          /\ f # r.param_file

\* Witness of C12: inputs a.RAW, a.txt, cfg.yaml gave the raw mapping
\* {a: a.RAW}, no reference file and the parameter file cfg.yaml, and the
\* tool was invoked.
C12_Witness ==
    /\ infiles[1] = <<File("a", ".RAW"), File("a", ".txt"), File("cfg", ".yaml")>>
    /\ ran[1].invoked
    /\ ran[1].raw_files = [k \in {"a"} |-> File("a", ".RAW")]
    /\ ran[1].fasta_files = EmptyDict
    /\ ran[1].param_file = File("cfg", ".yaml")

\* The positions of the inputs of a list that satisfy isClass.
Positions(seq, isClass(_)) == {i \in 1..Len(seq) : isClass(seq[i])}

\* The mapping d holds, for every stem among the inputs at the positions
\* idx, the last of those inputs with that stem, and nothing else.
LastPerStem(d, seq, idx) ==
    /\ DOMAIN d = {seq[i].stem : i \in idx}
    /\ \A k \in DOMAIN d :
         \E i \in idx :
             /\ seq[i].stem = k
             /\ d[k] = seq[i]
             /\ \A i2 \in idx : seq[i2].stem = k => i2 <= i

\* C20: each mapping of get_files has one entry for each distinct stem of
\* its class, whose value is the last input of that class with that stem,
\* and the number of parameter files that get_files checks is the number
\* of distinct stems among the parameter inputs: more than one is "Too
\* many parameter files", none is "No parameter file", one passes.
C20_LastInputPerStem ==
    \A j \in Jobs :
        LET seq == infiles[j]
            r == ran[j]
            stems == {seq[i].stem : i \in Positions(seq, IsParam)}
        IN r # NotRun =>
            /\ (r.exc = "Too many parameter files") = (Cardinality(stems) > 1)
            /\ (r.exc = "No parameter file") = (Cardinality(stems) = 0)
            /\ r.parsed = (Cardinality(stems) = 1)
            /\ r.parsed =>
                 /\ LastPerStem(r.raw_files, seq, Positions(seq, IsRaw))
                 /\ LastPerStem(r.fasta_files, seq, Positions(seq, IsFasta))
                 /\ \E i \in Positions(seq, IsParam) :
                      /\ r.param_file = seq[i]
                      /\ \A i2 \in Positions(seq, IsParam) : i2 <= i

\* Witness of C20: inputs a.RAW, a.raw, cfg.yaml, of which the two raw
\* files share the stem a, gave the raw mapping {a: a.raw}, and inputs with
\* two parameter files of one stem passed get_files with the later one.
C20_Witness ==
    \/ /\ infiles[1] = <<File("a", ".RAW"), File("a", ".raw"), File("cfg", ".yaml")>>
       /\ ran[1].parsed
       /\ ran[1].raw_files = [k \in {"a"} |-> File("a", ".raw")]
    \/ /\ infiles[1] = <<File("cfg", ".yaml"), File("cfg", ".JSON")>>
       /\ ran[1].parsed
       /\ ran[1].param_file = File("cfg", ".JSON")

\* The worker steps whose exception escapes the handling of a job.
WorkerSteps ==
    {"w_status", "w_stop", "w_enter", "w_error", "w_success", "w_exit"}

C14_ThreadsSurvive ==
    /\ fpc \in {"f_next", "f_status", "f_start", "f_put", "f_stop", "f_error"}
    /\ Cardinality({w \in Workers : wpc[w] \in
          {"w_get", "w_status", "w_stop", "w_enter", "w_run", "w_error",
           "w_outfiles", "w_success", "w_exit"}}) = NUM_WORKERS
    /\ \A j \in Jobs :
         /\ esc[j] \in WorkerSteps => \A w \in Workers : ~WorkerHolds(w, j)
         /\ (esc[j] \notin WorkerSteps \cup {"none"} /\ cur = j)
               => fpc = "f_next"

\* Witness of C14: exceptions escaped the handling of a job in the intake
\* thread and in a worker, and afterwards the intake thread admitted a
\* later job and a worker reported a later job.
C14_Witness ==
    \E i, j, k, l \in Jobs :
        /\ esc[i] = "f_start" /\ i < k /\ Admitted(k)
        /\ esc[j] = "w_enter" /\ j < l /\ esc[l] = "none" /\ term[l] = 1

\* The worker is inside the with block of the task it holds.
InScope(w) ==
    wpc[w] \in {"w_run", "w_error", "w_outfiles", "w_success", "w_exit"}

\* C15: from the worker's stop of the heartbeat on, the heartbeat of the
\* job it handles runs exactly while the worker is inside the scoped
\* heartbeat: it is stopped between the stop call and the entry of the
\* scope, running inside the scope, and stopped once the scope is left,
\* after a normal return and after a failure of run_maxquant alike.
C15_BeatExactlyInScope ==
    /\ \A w \in Workers :
         /\ wpc[w] = "w_enter" => ~beat[wtask[w]]
         /\ InScope(w) => beat[wtask[w]]
    /\ \A j \in Jobs :
         (deq[j] = 1 /\ ~\E w \in Workers : WorkerHolds(w, j)) =>
             ~beat[j] /\ status[j] \in Terminal

\* Witness of C15: one worker has stopped the heartbeat of its job and not
\* yet entered the scope, another is inside the scope with the heartbeat
\* running, and a job whose run failed was left without a heartbeat.
C15_Witness ==
    /\ \E w \in Workers : wpc[w] = "w_enter" /\ ~beat[wtask[w]]
    /\ \E w \in Workers : wpc[w] = "w_run" /\ beat[wtask[w]]
    /\ \E j \in Jobs : status[j] = "ERROR" /\ deq[j] = 1 /\ ~Held(j) /\ ~beat[j]

\* C16: a job has status SUCCESS only if its own call of run_maxquant
\* returned normally and task.outfiles was assigned before the report.
C16_SuccessHasOutfiles ==
    \A j \in Jobs :
        status[j] = "SUCCESS" =>
            /\ outfiles[j]
            /\ ran[j].exc = "ok"
            /\ ran[j].invoked

\* Witness of C16: one job is SUCCESS with its outfiles, another job whose
\* run failed is ERROR without outfiles.
C16_Witness ==
    \E i, j \in Jobs :
        /\ status[i] = "SUCCESS" /\ outfiles[i] /\ ran[i].exc = "ok"
        /\ status[j] = "ERROR" /\ ~outfiles[j] /\ ran[j].exc = "disk full"

\* C17: completion order is not admission order. A job admitted later has
\* its terminal status before a job admitted earlier only while the
\* earlier job is out of the queue and in the hands of another worker, so
\* with two workers or more the later job can finish first.
C17_LaterFinishesFirst ==
    \A a, b \in Jobs :
        (a < b /\ Admitted(a) /\ Admitted(b)
               /\ status[b] \in Terminal /\ status[a] \notin Terminal)
            => /\ NUM_WORKERS >= 2
               /\ deq[a] = 1
               /\ \E w \in Workers : WorkerHolds(w, a) /\ wtask[w] # b

\* Witness of C17: jobs 1 and 2 were admitted in this order, job 2 is
\* SUCCESS and job 1 is still WORKING.
C17_Witness ==
    /\ Admitted(1) /\ Admitted(2)
    /\ status[2] = "SUCCESS"
    /\ status[1] = "WORKING"

\* C18: every job in the queue has status WAITING and a running heartbeat.
C18_QueuedWaitingWithBeat ==
    \A i \in 1..Len(queue) :
        status[queue[i]] = "WAITING" /\ beat[queue[i]]

\* Witness of C18: the queue is full while a worker is handling a job that
\* it took from the queue, and every job in the queue is WAITING with its
\* heartbeat.
C18_Witness ==
    /\ Len(queue) = MAXQUEUE
    /\ \E w \in Workers : wpc[w] = "w_run"
    /\ \A i \in 1..Len(queue) :
         status[queue[i]] = "WAITING" /\ beat[queue[i]]

\* The jobs some worker has inside run_maxquant, the jobs in the queue and
\* the jobs a worker has taken and not yet left.
InRoutine == {j \in Jobs : \E w \in Workers : wtask[w] = j /\ wpc[w] = "w_run"}
Queued == {j \in Jobs : InQueue(j)}
HeldJobs == {j \in Jobs : \E w \in Workers : WorkerHolds(w, j)}
Busy == {w \in Workers : wpc[w] # "w_get"}

====
